---- MODULE Spec2Model ----
(***************************************************************************)
(* A model of ChatDev's phase orchestration core:                          *)
(*   chatdev/chat_env.py    ChatEnv (set_directory, exist_bugs, ...)       *)
(*   chatdev/chat_chain.py  ChatChain (execute_step, execute_chain, ...)   *)
(*                                                                         *)
(* Three specifications share the variables below:                         *)
(*   SpecBugs   one run of ChatEnv.exist_bugs against a child process      *)
(*   SpecEnv    calls of ChatEnv.set_directory against a file system       *)
(*   SpecChain  ChatChain.execute_chain over a configured chain            *)
(*                                                                         *)
(* Text is a sequence of one-character strings.  The byte "xFF" stands for *)
(* any byte that is not valid UTF-8.                                       *)
(***************************************************************************)
EXTENDS Integers, Sequences, FiniteSets, TLC

\* ------------------------------------------------------------------ bounds

\* longest text the child writes to its standard error
MaxErrLen == 4

\* ------------------------------------------------------------- text helpers

\* the bytes a child can write
Bytes == {"/", "w", "T", "b", "xFF"}

\* every text of at most n bytes
TextsUpTo(n) == UNION {[1..k -> Bytes] : k \in 0..n}

\* str.lower(), per character: "T" and "F" are the upper-case characters used
LowerChar(c) == IF c = "T" THEN "t" ELSE IF c = "F" THEN "f" ELSE c

\* str.lower()
Lower(s) == [i \in 1..Len(s) |-> LowerChar(s[i])]

\* Python's `p in s` on strings
Contains(s, p) ==
    \E i \in 0..(Len(s) - Len(p)) : SubSeq(s, i + 1, i + Len(p)) = p

\* Python's s.replace(old, ""), old non-empty: the non-overlapping occurrences
\* of old, found left to right, are dropped
RECURSIVE StrRemove(_, _)
StrRemove(s, old) ==
    IF Len(s) < Len(old) THEN s
    ELSE IF SubSeq(s, 1, Len(old)) = old
         THEN StrRemove(SubSeq(s, Len(old) + 1, Len(s)), old)
         ELSE <<Head(s)>> \o StrRemove(Tail(s), old)

\* bytes.decode("utf-8") succeeds exactly on valid input
Decodable(bytes) == \A i \in 1..Len(bytes) : bytes[i] # "xFF"

\* bytes.decode("utf-8") of valid input: each (ASCII) byte is its character
Decode(bytes) == [i \in 1..Len(bytes) |-> bytes[i]]

\* ---------------------------------------------------------------- variables

VARIABLES
    chat_env,    \* the ChatEnv: env_dict["directory"], the directories of
                 \* codes, requirements and manuals, config.clear_structure
    disk,        \* the file system: each path is "absent", "empty" or "full"
    backups,     \* the sources copied by set_directory's copytree
    calls,       \* history of the set_directory calls and their outcomes
    eb,          \* the frame of exist_bugs: pc, locals, returned result
    process,     \* the Popen object and the child it stands for
    chain,       \* ChatChain.chain, the configured step list
    cc,          \* the frame of execute_chain / execute_step
    fix,         \* the frame of fix_module_not_found_error and its installs
    roster,      \* ChatEnv.roster and the history of the recruit calls
    recruitments,\* ChatChain.recruitments, the configured participants
    images,      \* proposed_images, incorporated_images, the codes' images
    pre          \* the frame of ChatChain.pre_processing

vars == <<chat_env, disk, backups, calls, eb, process, chain, cc,
          fix, roster, recruitments, images, pre>>

auxVars == <<fix, roster, recruitments, images, pre>>
envVars == <<chat_env, disk, backups, calls, auxVars>>
bugVars == <<eb, process>>
chainVars == <<chain, cc>>

\* the frame of fix_module_not_found_error before the call
IdleFix ==
    [pc |-> "idle", test_reports |-> <<>>, matches |-> <<>>, installing |-> {},
     installs |-> <<>>, log |-> <<>>]

\* lines 61, 63-64: an empty roster, no images
EmptyRoster == [agents |-> <<>>, log |-> <<>>, made |-> FALSE]
NoImages ==
    [proposed |-> {}, incorporated |-> {},
     codes |-> <<>>, files |-> {}, generated |-> 0, matched |-> {}]

\* the frame of pre_processing before the call
IdlePre ==
    [pc |-> "idle", self_improve |-> <<>>, task_prompt_raw |-> <<>>,
     warehouse_exists |-> TRUE, warehouse |-> {}, directory |-> {},
     reached |-> {}, error |-> {}]

\* the frame of execute_chain before the call
IdleChain ==
    [pc |-> "idle", i |-> 1, cycle |-> 1, pos |-> 1, dispatched |-> <<>>,
     returned |-> 0, executed |-> <<>>, steps |-> <<>>, error |-> {}]

\* ------------------------------------------------- ChatEnv.exist_bugs (126-165)

\* line 135
success_info == <<"The software run successfully without errors.">>

\* "Traceback", the marker of line 155, scaled to two characters
Traceback == <<"T", "b">>

\* the directories exist_bugs is run with: "" (never bound), "w" and "/w"
Directories == {<<>>, <<"w">>, <<"/", "w">>}

\* exit statuses of a child that exits by itself
ExitCodes == {0, 1}

\* exit status of a child killed by SIGTERM (Popen reports -signal.SIGTERM)
KilledBySigterm == 0 - 15

\* what the library calls of the try block raise
SpawnErrors == {[type |-> "OSError", text |-> "Cannot allocate memory"]}
KillErrors == {[type |-> "PermissionError", text |-> "Operation not permitted"]}
DecodeError == [type |-> "UnicodeDecodeError", text |-> "invalid start byte"]

\* a Popen object before Popen() has run
NoProcess ==
    [state |-> "none", exit |-> {}, returncode |-> {}, pipe_open |-> FALSE,
     stderr |-> <<>>, signalled |-> "none", term_pending |-> FALSE]

\* the frame of exist_bugs before the call
IdleFrame ==
    [pc |-> "idle", directory |-> <<>>, return_code |-> {}, polled |-> "none",
     caught |-> {}, result |-> {}, earlier |-> {}]

\* lines 160-163: both handlers return has-bug with the exception's text
Handler(ex) ==
    [hasBug |-> TRUE,
     message |-> IF ex.type = "CalledProcessError"
                 THEN <<"Error: ", ex.text>>
                 ELSE <<"An error occurred: ", ex.text>>]

\* an exception raised in the try block is caught by no handler and leaves
\* exist_bugs, unless it is a CalledProcessError
OnExceptionNarrow(frame, ex) ==
    IF ex.type = "CalledProcessError"
    THEN [frame EXCEPT !.pc = "returned", !.caught = {ex},
                       !.result = {Handler(ex)}]
    ELSE [frame EXCEPT !.pc = "raised"]

\* lines 136, 160-163: an exception raised in the try block is caught and the
\* handler's result returned
OnException(frame, ex) ==
    [frame EXCEPT !.pc = "returned", !.caught = {ex}, !.result = {Handler(ex)}]

\* line 146: Popen.returncode is read before poll() has run
ReturnCodeRead(p) == p.returncode

\* line 148: poll() reaps an exited child and sets Popen.returncode
Poll(p) == IF p.state = "exited" THEN [p EXCEPT !.returncode = p.exit] ELSE p

\* os.kill(process.pid, signal.SIGTERM): the shell alone is signalled
KillTargetProcessOnly == "process"

\* line 149: os.killpg(os.getpgid(process.pid), signal.SIGTERM)
KillTarget == "group"

\* "Traceback".lower() in error_output: the output is not lowered
HasTracebackCaseSensitive(error_output) ==
    Contains(error_output, Lower(Traceback))

\* line 155: "Traceback".lower() in error_output.lower()
HasTraceback(error_output) == Contains(Lower(error_output), Lower(Traceback))

\* line 156: error_output.replace(directory + "/", "")
Errs(error_output, directory) == StrRemove(error_output, directory \o <<"/">>)

\* any error output counted as a bug, marker or not
ClassifyOutputAnyTextIsBug(error_output, directory) ==
    IF Len(error_output) > 0
    THEN [hasBug |-> TRUE, message |-> Errs(error_output, directory)]
    ELSE [hasBug |-> FALSE, message |-> success_info]

\* a non-zero exit without any error output counted as a bug
ClassifyOutputSilentIsBug(error_output, directory) ==
    IF Len(error_output) > 0 /\ ~HasTraceback(error_output)
    THEN [hasBug |-> FALSE, message |-> success_info]
    ELSE [hasBug |-> TRUE, message |-> Errs(error_output, directory)]

\* lines 154-159 and 165: the result computed from the text read from stderr
ClassifyOutput(error_output, directory) ==
    IF Len(error_output) > 0
    THEN IF HasTraceback(error_output)
         THEN [hasBug |-> TRUE, message |-> Errs(error_output, directory)]
         ELSE [hasBug |-> FALSE, message |-> success_info]
    ELSE [hasBug |-> FALSE, message |-> success_info]

\* lines 133-144: the call; Popen starts the shell in a session of its own
Popen ==
    /\ eb.pc = "idle"
    /\ eb' = [eb EXCEPT !.pc = "sleep", !.directory = chat_env.directory]
    /\ process' = [NoProcess EXCEPT !.state = "running", !.pipe_open = TRUE]
    /\ UNCHANGED <<envVars, chainVars>>

\* lines 138-144, 162-163: Popen raises, the handler returns
PopenRaises ==
    /\ eb.pc = "idle"
    /\ \E ex \in SpawnErrors :
          eb' = OnException([eb EXCEPT !.directory = chat_env.directory], ex)
    /\ UNCHANGED <<process, envVars, chainVars>>

\* the child writes to its standard error (once, any text)
ChildWrite ==
    /\ process.state = "running"
    /\ process.pipe_open
    /\ process.stderr = <<>>
    /\ \E t \in TextsUpTo(MaxErrLen) \ {<<>>} :
          process' = [process EXCEPT !.stderr = t]
    /\ UNCHANGED <<eb, envVars, chainVars>>

\* the child exits by itself; its end of the pipe closes (the shell and the
\* program it waits for are one child here)
ChildExit ==
    /\ process.state = "running"
    /\ \E c \in ExitCodes :
          process' = [process EXCEPT !.state = "exited", !.exit = {c},
                                     !.pipe_open = FALSE]
    /\ UNCHANGED <<eb, envVars, chainVars>>

\* the child closes its standard error and keeps running
ChildCloseStderr ==
    /\ process.state = "running"
    /\ process.pipe_open
    /\ process' = [process EXCEPT !.pipe_open = FALSE]
    /\ UNCHANGED <<eb, envVars, chainVars>>

\* SIGTERM takes effect: the child is killed (a child may also ignore it)
ChildTerminated ==
    /\ process.state = "running"
    /\ process.term_pending
    /\ process' = [process EXCEPT !.state = "exited",
                                  !.exit = {KilledBySigterm},
                                  !.pipe_open = FALSE, !.term_pending = FALSE]
    /\ UNCHANGED <<eb, envVars, chainVars>>

\* lines 145-149: the grace period ends; returncode is read, then poll(), then
\* the group of a child that is still running is sent SIGTERM
GraceEnd ==
    /\ eb.pc = "sleep"
    /\ LET rc == ReturnCodeRead(process)
           p == Poll(process)
       IN  IF p.returncode = {}
           THEN /\ process' = [p EXCEPT !.signalled = KillTarget,
                                        !.term_pending = TRUE]
                /\ eb' = [eb EXCEPT !.pc = "classify", !.return_code = rc,
                                    !.polled = "alive"]
           ELSE /\ process' = p
                /\ eb' = [eb EXCEPT !.pc = "classify", !.return_code = rc,
                                    !.polled = "exited"]
    /\ UNCHANGED <<envVars, chainVars>>

\* lines 145-149, 162-163: killpg raises, the handler returns
KillRaises ==
    /\ eb.pc = "sleep"
    /\ process.state = "running"
    /\ \E ex \in KillErrors :
          eb' = OnException([eb EXCEPT !.return_code = ReturnCodeRead(process),
                                       !.polled = "alive"], ex)
    /\ UNCHANGED <<process, envVars, chainVars>>

\* lines 150-165: the return code decides, or stderr is read to its end
\* (read() returns once every writer has closed the pipe) and classified
Classify ==
    /\ eb.pc = "classify"
    /\ eb.return_code = {0} \/ ~process.pipe_open
    /\ eb' = IF eb.return_code = {0}
             THEN [eb EXCEPT !.pc = "returned",
                             !.result = {[hasBug |-> FALSE,
                                          message |-> success_info]}]
             ELSE IF ~Decodable(process.stderr)
             THEN OnException(eb, DecodeError)
             ELSE [eb EXCEPT !.pc = "returned",
                             !.result = {ClassifyOutput(Decode(process.stderr),
                                                        eb.directory)}]
    /\ UNCHANGED <<process, envVars, chainVars>>

\* what a call that has returned leaves to the next: nothing of chat_env is
\* written (lines 126-165 assign locals only); kept here are the child's exit
\* code and the result, for comparison
Outcome(frame, p) ==
    [exit |-> p.exit, caught |-> frame.caught # {},
     hasBug |-> \A r \in frame.result : r.hasBug]

\* lines 126-165, a second time: exist_bugs is called again on the same
\* environment once the first call has returned
ExistBugsAgain ==
    /\ eb.pc = "returned"
    /\ eb.earlier = {}
    /\ eb' = [IdleFrame EXCEPT !.earlier = {Outcome(eb, process)}]
    /\ process' = NoProcess
    /\ UNCHANGED <<envVars, chainVars>>

InitAuxIdle ==
    /\ fix = IdleFix
    /\ roster = EmptyRoster
    /\ recruitments = <<>>
    /\ images = NoImages
    /\ pre = IdlePre

InitEnvIdle ==
    /\ disk = [p \in Directories |-> "absent"]
    /\ backups = {}
    /\ calls = <<>>
    /\ InitAuxIdle

InitChainIdle ==
    /\ chain = <<>>
    /\ cc = IdleChain

InitBugs ==
    /\ \E d \in Directories :
          chat_env = [directory |-> d, codes_directory |-> d,
                      requirements_directory |-> d, manuals_directory |-> d,
                      clear_structure |-> FALSE, task_prompt |-> <<>>,
                      writes |-> <<>>]
    /\ InitEnvIdle
    /\ InitChainIdle
    /\ eb = IdleFrame
    /\ process = NoProcess

NextBugs ==
    \/ Popen
    \/ PopenRaises
    \/ ChildWrite
    \/ ChildExit
    \/ ChildCloseStderr
    \/ ChildTerminated
    \/ GraceEnd
    \/ KillRaises
    \/ Classify
    \/ ExistBugsAgain

SpecBugs == InitBugs /\ [][NextBugs]_vars

\* What the code's own steps are owed: time.sleep(3) of line 145 ends, and
\* read() of line 153 returns once every writer has closed the pipe. Nothing
\* is owed by the child: it may run on, keep its standard error open and
\* leave SIGTERM unanswered.
FairBugs ==
    /\ WF_vars(GraceEnd \/ KillRaises)
    /\ WF_vars(Classify)

SpecBugsLive == SpecBugs /\ FairBugs

\* ------------------------------------------------ ChatEnv.set_directory (96-124)

\* most set_directory calls in one behaviour
MaxCalls == 2

\* the four places the directory is stored (lines 104-107)
Bound(env) ==
    <<env.directory, env.codes_directory, env.requirements_directory,
      env.manuals_directory>>

\* the assert left out (or compiled away)
DirectoryNotChecked(env) == TRUE

\* line 103: the condition of the assert
DirectoryUnset(env) == Len(env.directory) = 0

\* env_dict["directory"] assigned alone
BindEnvDictOnly(env, directory) == [env EXCEPT !.directory = directory]

\* lines 104-107
Bind(env, directory) ==
    [env EXCEPT !.directory = directory, !.codes_directory = directory,
                !.requirements_directory = directory,
                !.manuals_directory = directory]

\* the copy never thought necessary
NeverCopied(d, directory) == FALSE

\* lines 109-112: os.path.exists(directory) and len(os.listdir(directory)) > 0
NonEmptyOnDisk(d, directory) == d[directory] = "full"

\* lines 118-124: os.mkdir fails on "", which names no directory
MkdirFails(directory) == directory = <<>>

\* lines 118-124: rmtree and mkdir, or mkdir, leave an empty directory
Cleared(d, directory) == [d EXCEPT ![directory] = "empty"]

Record(before, directory, outcome, after) ==
    [before |-> before, arg |-> directory, outcome |-> outcome, after |-> after]

\* line 103: the assert fails and nothing is assigned
SetDirectoryRejected ==
    /\ Len(calls) < MaxCalls
    /\ ~DirectoryUnset(chat_env)
    /\ \E directory \in Directories :
          calls' = Append(calls, Record(Bound(chat_env), directory,
                                        "AssertionError", Bound(chat_env)))
    /\ UNCHANGED <<chat_env, disk, backups, auxVars, bugVars, chainVars>>

\* lines 103-124: the directory is bound, a non-empty target is copied aside,
\* and with clear_structure the target is removed and made again
SetDirectory ==
    /\ Len(calls) < MaxCalls
    /\ DirectoryUnset(chat_env)
    /\ \E directory \in Directories :
          /\ ~(chat_env.clear_structure /\ MkdirFails(directory))
          /\ chat_env' = Bind(chat_env, directory)
          /\ backups' = IF NonEmptyOnDisk(disk, directory)
                        THEN backups \cup {directory} ELSE backups
          /\ disk' = IF chat_env.clear_structure
                     THEN Cleared(disk, directory) ELSE disk
          /\ calls' = Append(calls, Record(Bound(chat_env), directory, "ok",
                                           Bound(chat_env')))
    /\ UNCHANGED <<auxVars, bugVars, chainVars>>

\* lines 103-116: copytree raises (the timestamped copy exists, the disk is
\* full); the directory is bound and the target is left as it was
SetDirectoryCopyFails ==
    /\ Len(calls) < MaxCalls
    /\ DirectoryUnset(chat_env)
    /\ \E directory \in Directories :
          /\ NonEmptyOnDisk(disk, directory)
          /\ chat_env' = Bind(chat_env, directory)
          /\ calls' = Append(calls, Record(Bound(chat_env), directory,
                                           "copytree raised", Bound(chat_env')))
    /\ UNCHANGED <<disk, backups, auxVars, bugVars, chainVars>>

\* lines 103-124: with clear_structure, os.mkdir("") raises; the (empty)
\* directory has been assigned
SetDirectoryMkdirFails ==
    /\ Len(calls) < MaxCalls
    /\ DirectoryUnset(chat_env)
    /\ chat_env.clear_structure
    /\ \E directory \in Directories :
          /\ MkdirFails(directory)
          /\ chat_env' = Bind(chat_env, directory)
          /\ calls' = Append(calls, Record(Bound(chat_env), directory,
                                           "mkdir raised", Bound(chat_env')))
    /\ UNCHANGED <<disk, backups, auxVars, bugVars, chainVars>>

\* lines 59-76: a new ChatEnv, on any disk; "" never exists on disk
InitEnv ==
    /\ \E cs \in BOOLEAN :
          chat_env = [directory |-> <<>>, codes_directory |-> <<>>,
                      requirements_directory |-> <<>>,
                      manuals_directory |-> <<>>,
                      clear_structure |-> cs, task_prompt |-> <<>>,
                      writes |-> <<>>]
    /\ disk \in {d \in [Directories -> {"absent", "empty", "full"}] :
                    d[<<>>] = "absent"}
    /\ backups = {}
    /\ calls = <<>>
    /\ InitAuxIdle
    /\ InitChainIdle
    /\ eb = IdleFrame
    /\ process = NoProcess

NextEnv ==
    \/ SetDirectoryRejected
    \/ SetDirectory
    \/ SetDirectoryCopyFails
    \/ SetDirectoryMkdirFails

SpecEnv == InitEnv /\ [][NextEnv]_vars

\* ------------------------------------- ChatChain.execute_chain (chat_chain.py)

\* longest configured chain
MaxChain == 3

\* largest cycleNum of a ComposedPhase entry
MaxCycle == 2

\* line 79
chat_turn_limit_default == 10

\* lines 109-124: self.phases, one instance per phase of PhaseConfig.json
phases == {"Draft", "Critique", "Revise"}

\* lines 107, 198: the classes of the module chatdev.composed_phase
compose_phase_module == {"Review"}

\* the texts configured for need_reflect
StrTrue == <<"T", "r", "u", "e">>
StrFalse == <<"F", "a", "l", "s", "e">>
StrLowerTrue == <<"t", "r", "u", "e">>

\* a SimplePhase entry of ChatChainConfig.json
Simple(phase, max_turn_step, need_reflect) ==
    [phase |-> phase, phaseType |-> "SimplePhase",
     max_turn_step |-> max_turn_step, need_reflect |-> need_reflect,
     cycleNum |-> 0, Composition |-> <<>>]

\* a ComposedPhase entry of ChatChainConfig.json
Composed(phase, cycleNum, Composition) ==
    [phase |-> phase, phaseType |-> "ComposedPhase", max_turn_step |-> 0,
     need_reflect |-> StrFalse, cycleNum |-> cycleNum,
     Composition |-> Composition]

\* the compositions tried: phases of PhaseConfig.json, by name
Compositions == {<<>>, <<"Revise">>, <<"Critique", "Revise">>}

\* the chain entries tried: resolved and unresolved names of both types, turn
\* limits above, at and below zero, and a phaseType that is neither
ChainItems ==
    {Simple("Draft", 3, StrFalse), Simple("Draft", 0, StrTrue),
     Simple("Critique", 0 - 1, StrLowerTrue), Simple("Ghost", 3, StrFalse)}
    \cup {Composed("Review", c, comp) : c \in 0..MaxCycle, comp \in Compositions}
    \cup {Composed("Nope", 1, <<"Critique">>)}
    \cup {[Simple("Draft", 3, StrFalse) EXCEPT !.phaseType = "HumanPhase"]}

Chains == UNION {[1..n -> ChainItems] : n \in 0..MaxChain}

\* lines 19-20: s.lower() == "true"
check_bool(s) == Lower(s) = <<"t", "r", "u", "e">>

\* the default taken for negative values only
TurnLimitZeroKept(max_turn_step) ==
    IF max_turn_step < 0 THEN chat_turn_limit_default ELSE max_turn_step

\* lines 183-187: the turn limit handed to Phase.execute
TurnLimit(max_turn_step) ==
    IF max_turn_step <= 0 THEN chat_turn_limit_default ELSE max_turn_step

\* the lookup without the membership test
SimpleNotChecked(phase) == TRUE

\* line 180: phase in self.phases
SimpleResolved(phase) == phase \in phases

\* line 198: getattr(self.compose_phase_module, phase) finds the class
\* (it raises AttributeError otherwise, so line 199 never sees a miss)
ComposedResolved(phase) == phase \in compose_phase_module

\* the instance built without the configured cycle count
ComposeInstanceOneCycle(phase_item) ==
    [phase_name |-> phase_item.phase, cycle_num |-> 1,
     composition |-> phase_item.Composition]

\* lines 203-211: what the ComposedPhase instance is built with
ComposeInstance(phase_item) ==
    [phase_name |-> phase_item.phase, cycle_num |-> phase_item.cycleNum,
     composition |-> phase_item.Composition]

\* line 230: the entry the loop hands to execute_step in its i-th iteration
PhaseItem(ch, i) == ch[i]

\* the loop stopping one entry early
ChainExhaustedEarly(ch, i) == i >= Len(ch)

\* line 230: the loop is over when the list is exhausted
ChainExhausted(ch, i) == i > Len(ch)

\* Phase.execute, completed: the phase's update is applied to the environment
\* it was given, which it returns
PhaseExecute(env, phase) == [env EXCEPT !.writes = Append(@, phase)]

\* one invocation of Phase.execute, as logged
Invocation(i, phase, limit, reflect) ==
    [step |-> i, phase |-> phase, chat_turn_limit |-> limit,
     need_reflect |-> reflect]

\* execute called on an environment of its own making
EnvArgumentFresh(env) == [env EXCEPT !.writes = <<>>]

\* lines 182 and 212: the environment handed to execute is self.chat_env
EnvArgument(env) == env

\* the value execute returns let go
AssignReturnedDropped(old_env, returned_env) == old_env

\* lines 181 and 212: self.chat_env = <what execute returned>
AssignReturned(old_env, returned_env) == returned_env

\* one call of execute made by execute_step, as logged: the environment
\* handed over, and the one returned once it has returned
StepRecord(i, env) == [step |-> i, env_in |-> env.writes, env_out |-> {}]

Last(s) == s[Len(s)]

\* the call of execute logged last has returned env
Returned(steps, env) ==
    [steps EXCEPT ![Len(steps)].env_out = {env.writes}]

\* lines 216-231: execute_chain is called
ExecuteChain ==
    /\ cc.pc = "idle"
    /\ cc' = [cc EXCEPT !.pc = "loop"]
    /\ UNCHANGED <<chain, envVars, bugVars>>

\* lines 230-231, 174-189: a SimplePhase entry whose phase resolves; execute
\* of the phase instance is entered
StepSimple ==
    /\ cc.pc = "loop"
    /\ ~ChainExhausted(chain, cc.i)
    /\ LET phase_item == PhaseItem(chain, cc.i)
       IN  /\ phase_item.phaseType = "SimplePhase"
           /\ SimpleResolved(phase_item.phase)
           /\ cc' = [cc EXCEPT
                 !.pc = "phase",
                 !.dispatched = Append(@, cc.i),
                 !.steps = Append(@, StepRecord(cc.i, EnvArgument(chat_env))),
                 !.executed = Append(@,
                     Invocation(cc.i, phase_item.phase,
                                TurnLimit(phase_item.max_turn_step),
                                check_bool(phase_item.need_reflect)))]
    /\ UNCHANGED <<chain, envVars, bugVars>>

\* lines 181-189: execute returns; its environment becomes self.chat_env
PhaseReturns ==
    /\ cc.pc = "phase"
    /\ LET given == [chat_env EXCEPT !.writes = Last(cc.steps).env_in]
           env == PhaseExecute(given, PhaseItem(chain, cc.i).phase)
       IN  /\ chat_env' = AssignReturned(chat_env, env)
           /\ cc' = [cc EXCEPT !.pc = "loop", !.i = @ + 1, !.returned = @ + 1,
                               !.steps = Returned(@, env)]
    /\ UNCHANGED <<chain, disk, backups, calls, auxVars, bugVars>>

\* the failure caught and the entry tried again
OnPhaseFailureRetried(frame, phase) ==
    [frame EXCEPT !.pc = "loop",
                  !.error = {[type |-> "ExternalCallFailure",
                              names |-> phase,
                              message |-> "raised by Phase.execute"]}]

\* lines 174-214 and 230-231 hold no try: what execute raises leaves
\* execute_step and execute_chain
OnPhaseFailure(frame, phase) ==
    [frame EXCEPT !.pc = "failed",
                  !.error = {[type |-> "ExternalCallFailure",
                              names |-> phase,
                              message |-> "raised by Phase.execute"]}]

\* lines 181-189: execute raises; nothing catches it up to execute_chain
PhaseRaises ==
    /\ cc.pc = "phase"
    /\ cc' = OnPhaseFailure(cc, PhaseItem(chain, cc.i).phase)
    /\ UNCHANGED <<chain, envVars, bugVars>>

\* lines 190-193: a SimplePhase entry whose phase is not in self.phases
StepSimpleUnresolved ==
    /\ cc.pc = "loop"
    /\ ~ChainExhausted(chain, cc.i)
    /\ LET phase_item == PhaseItem(chain, cc.i)
       IN  /\ phase_item.phaseType = "SimplePhase"
           /\ ~SimpleResolved(phase_item.phase)
           /\ cc' = [cc EXCEPT !.pc = "failed",
                               !.dispatched = Append(@, cc.i),
                               !.error = {[type |-> "RuntimeError",
                                           names |-> phase_item.phase,
                                           message |-> "Phase is not yet implemented in chatdev.phase"]}]
    /\ UNCHANGED <<chain, envVars, bugVars>>

\* lines 195-212: a ComposedPhase entry whose class resolves; the instance is
\* built and its execute is entered
StepComposed ==
    /\ cc.pc = "loop"
    /\ ~ChainExhausted(chain, cc.i)
    /\ LET phase_item == PhaseItem(chain, cc.i)
       IN  /\ phase_item.phaseType = "ComposedPhase"
           /\ ComposedResolved(phase_item.phase)
           /\ cc' = [cc EXCEPT !.pc = "composed", !.cycle = 1, !.pos = 1,
                               !.dispatched = Append(@, cc.i),
                               !.steps = Append(@,
                                   StepRecord(cc.i, EnvArgument(chat_env)))]
    /\ UNCHANGED <<chain, envVars, bugVars>>

\* line 198: getattr raises AttributeError for a class the module lacks
StepComposedUnresolved ==
    /\ cc.pc = "loop"
    /\ ~ChainExhausted(chain, cc.i)
    /\ LET phase_item == PhaseItem(chain, cc.i)
       IN  /\ phase_item.phaseType = "ComposedPhase"
           /\ ~ComposedResolved(phase_item.phase)
           /\ cc' = [cc EXCEPT !.pc = "failed",
                               !.dispatched = Append(@, cc.i),
                               !.error = {[type |-> "AttributeError",
                                           names |-> phase_item.phase,
                                           message |-> "module has no attribute"]}]
    /\ UNCHANGED <<chain, envVars, bugVars>>

\* the entry skipped and the loop carried on
OnBadTypeSkipped(frame, phase_type) ==
    [frame EXCEPT !.pc = "loop", !.i = @ + 1,
                  !.dispatched = Append(@, frame.i)]

\* lines 213-214: the else branch of the dispatch raises; nothing catches it
\* up to execute_chain
OnBadType(frame, phase_type) ==
    [frame EXCEPT !.pc = "failed",
                  !.dispatched = Append(@, frame.i),
                  !.error = {[type |-> "RuntimeError",
                              names |-> phase_type,
                              message |-> "PhaseType is not yet implemented."]}]

\* lines 213-214: neither SimplePhase nor ComposedPhase
StepBadType ==
    /\ cc.pc = "loop"
    /\ ~ChainExhausted(chain, cc.i)
    /\ LET phase_item == PhaseItem(chain, cc.i)
       IN  /\ phase_item.phaseType \notin {"SimplePhase", "ComposedPhase"}
           /\ cc' = OnBadType(cc, phase_item.phaseType)
    /\ UNCHANGED <<chain, envVars, bugVars>>

\* ComposedPhase.execute: the next phase of the composition is invoked
InnerStarts ==
    /\ cc.pc = "composed"
    /\ LET inst == ComposeInstance(PhaseItem(chain, cc.i))
       IN  /\ cc.cycle <= inst.cycle_num
           /\ cc.pos <= Len(inst.composition)
           /\ cc' = [cc EXCEPT
                 !.pc = "inner",
                 !.executed = Append(@,
                     Invocation(cc.i, inst.composition[cc.pos],
                                chat_turn_limit_default, FALSE))]
    /\ UNCHANGED <<chain, envVars, bugVars>>

\* ComposedPhase.execute: the inner phase returns; on to the next phase of the
\* composition, or to the next cycle
InnerReturns ==
    /\ cc.pc = "inner"
    /\ LET inst == ComposeInstance(PhaseItem(chain, cc.i))
       IN  /\ chat_env' = PhaseExecute(chat_env, inst.composition[cc.pos])
           /\ cc' = IF cc.pos < Len(inst.composition)
                    THEN [cc EXCEPT !.pc = "composed", !.pos = @ + 1]
                    ELSE [cc EXCEPT !.pc = "composed", !.pos = 1,
                                    !.cycle = @ + 1]
    /\ UNCHANGED <<chain, disk, backups, calls, auxVars, bugVars>>

\* ComposedPhase.execute: the inner phase raises; the failure propagates
InnerRaises ==
    /\ cc.pc = "inner"
    /\ LET inst == ComposeInstance(PhaseItem(chain, cc.i))
       IN  cc' = OnPhaseFailure(cc, inst.composition[cc.pos])
    /\ UNCHANGED <<chain, envVars, bugVars>>

\* line 212: ComposedPhase.execute returns after its last cycle; its
\* environment becomes self.chat_env
ComposedReturns ==
    /\ cc.pc = "composed"
    /\ LET inst == ComposeInstance(PhaseItem(chain, cc.i))
       IN  cc.cycle > inst.cycle_num \/ Len(inst.composition) = 0
    /\ chat_env' = AssignReturned(chat_env, chat_env)
    /\ cc' = [cc EXCEPT !.pc = "loop", !.i = @ + 1, !.returned = @ + 1,
                        !.steps = Returned(@, chat_env)]
    /\ UNCHANGED <<chain, disk, backups, calls, auxVars, bugVars>>

\* lines 230-231: the loop has run through the list
ExecuteChainReturns ==
    /\ cc.pc = "loop"
    /\ ChainExhausted(chain, cc.i)
    /\ cc' = [cc EXCEPT !.pc = "done"]
    /\ UNCHANGED <<chain, envVars, bugVars>>

\* lines 25-124: after construction and pre-processing: any chain, the
\* directory bound, no phase run
InitChain ==
    /\ chain \in Chains
    /\ cc = IdleChain
    /\ chat_env = [directory |-> <<"/", "w">>, codes_directory |-> <<"/", "w">>,
                   requirements_directory |-> <<"/", "w">>,
                   manuals_directory |-> <<"/", "w">>,
                   clear_structure |-> FALSE, task_prompt |-> <<>>,
                      writes |-> <<>>]
    /\ InitEnvIdle
    /\ eb = IdleFrame
    /\ process = NoProcess

NextChain ==
    \/ ExecuteChain
    \/ StepSimple
    \/ PhaseReturns
    \/ PhaseRaises
    \/ StepSimpleUnresolved
    \/ StepComposed
    \/ StepComposedUnresolved
    \/ StepBadType
    \/ InnerStarts
    \/ InnerReturns
    \/ InnerRaises
    \/ ComposedReturns
    \/ ExecuteChainReturns

SpecChain == InitChain /\ [][NextChain]_vars

\* ------------------------------ ChatEnv.fix_module_not_found_error (78-94)

\* longest test report, in pieces of text
MaxReport == 3

\* the pieces of text a test report is made of: the marker of line 86, an
\* occurrence of the pattern of line 88 naming a module, any other text
ReportPieces ==
    {[kind |-> "ModuleNotFoundError", module |-> ""],
     [kind |-> "No module named", module |-> "foo"],
     [kind |-> "No module named", module |-> "bar"],
     [kind |-> "other", module |-> ""]}

Reports == UNION {[1..n -> ReportPieces] : n \in 0..MaxReport}

\* line 86: "ModuleNotFoundError" in test_reports
HasMarker(test_reports) ==
    \E j \in 1..Len(test_reports) : test_reports[j].kind = "ModuleNotFoundError"

\* the modules to install, without the test of line 86
FindModulesUnguarded(test_reports) ==
    LET hits == SelectSeq(test_reports, LAMBDA x : x.kind = "No module named")
    IN  [j \in 1..Len(hits) |-> hits[j].module]

\* lines 86-90: re.finditer yields every occurrence of the pattern, in the
\* order of the text; match.group(1) is the module it names
FindModules(test_reports) ==
    IF HasMarker(test_reports)
    THEN LET hits == SelectSeq(test_reports,
                               LAMBDA x : x.kind = "No module named")
         IN  [j \in 1..Len(hits) |-> hits[j].module]
    ELSE <<>>

\* the report stored in the environment by the method
EnvAfterFixReported(env, test_reports) ==
    [env EXCEPT !.writes = Append(@, "test_reports")]

\* lines 78-79: a @staticmethod without self: it has no environment to write
EnvAfterFix(env, test_reports) == env

\* lines 79, 86-89: the call, with any report
FixModuleNotFoundError ==
    /\ fix.pc = "idle"
    /\ \E test_reports \in Reports :
          /\ fix' = [fix EXCEPT !.pc = "loop", !.test_reports = test_reports,
                                !.matches = FindModules(test_reports)]
          /\ chat_env' = EnvAfterFix(chat_env, test_reports)
    /\ UNCHANGED <<disk, backups, calls, roster, recruitments,
                   images, pre, bugVars, chainVars>>

\* lines 90-91: subprocess.Popen("pip install <module>", shell=True) for the
\* next match
PipInstall ==
    /\ fix.pc = "loop"
    /\ fix.matches # <<>>
    /\ fix' = [fix EXCEPT !.pc = "wait", !.installing = {Head(fix.matches)},
                          !.installs = Append(@, Head(fix.matches))]
    /\ UNCHANGED <<chat_env, disk, backups, calls, roster, recruitments,
                   images, pre, bugVars, chainVars>>

\* lines 91-94: .wait() returns, whatever pip's exit status, and the command
\* is logged
PipWaited ==
    /\ fix.pc = "wait"
    /\ fix' = [fix EXCEPT !.pc = "loop", !.installing = {},
                          !.matches = Tail(@),
                          !.log = Append(@, <<"[CMD] pip install ",
                                              Head(fix.matches)>>)]
    /\ UNCHANGED <<chat_env, disk, backups, calls, roster, recruitments,
                   images, pre, bugVars, chainVars>>

\* lines 86-94: no match is left (or the marker is missing): the call returns
FixReturns ==
    /\ fix.pc = "loop"
    /\ fix.matches = <<>>
    /\ fix' = [fix EXCEPT !.pc = "returned"]
    /\ UNCHANGED <<chat_env, disk, backups, calls, roster, recruitments,
                   images, pre, bugVars, chainVars>>

InitFix ==
    /\ \E d \in Directories :
          chat_env = [directory |-> d, codes_directory |-> d,
                      requirements_directory |-> d, manuals_directory |-> d,
                      clear_structure |-> FALSE, task_prompt |-> <<>>,
                      writes |-> <<>>]
    /\ InitEnvIdle
    /\ InitChainIdle
    /\ eb = IdleFrame
    /\ process = NoProcess

NextFix ==
    \/ FixModuleNotFoundError
    \/ PipInstall
    \/ PipWaited
    \/ FixReturns

SpecFix == InitFix /\ [][NextFix]_vars

\* ------------- ChatEnv.recruit (167-174), ChatChain.make_recruitment (126-141)

\* longest list of configured participants, and most direct recruit calls
MaxRecruit == 3

\* the participant names tried
AgentNames == {"Chief Executive Officer", "Programmer"}

\* Roster._recruit: a name that is present already is left alone (with a
\* notice), a new name is added
RosterRecruit(agents, agent_name) ==
    IF \E j \in 1..Len(agents) : agents[j] = agent_name
    THEN agents
    ELSE Append(agents, agent_name)

\* line 174: recruit hands the name to the roster; the call is logged with
\* the roster's size before and after it
recruit(r, agent_name) ==
    [r EXCEPT !.agents = RosterRecruit(r.agents, agent_name),
              !.log = Append(@,
                  [name |-> agent_name,
                   present |-> \E j \in 1..Len(r.agents) :
                                  r.agents[j] = agent_name,
                   before |-> Len(r.agents),
                   after |-> Len(RosterRecruit(r.agents, agent_name))])]

RECURSIVE RecruitAll(_, _)
RecruitAll(r, employees) ==
    IF employees = <<>> THEN r
    ELSE RecruitAll(recruit(r, Head(employees)), Tail(employees))

\* the loop starting at the second employee
make_recruitment_from_second(r, employees) ==
    IF employees = <<>> THEN r ELSE RecruitAll(r, Tail(employees))

\* lines 140-141: every configured employee is recruited, in order
make_recruitment(r, employees) == RecruitAll(r, employees)

\* lines 167-174: a direct call of ChatEnv.recruit, with any name
Recruit ==
    /\ Len(roster.log) < MaxRecruit
    /\ ~roster.made
    /\ \E agent_name \in AgentNames : roster' = recruit(roster, agent_name)
    /\ UNCHANGED <<chat_env, disk, backups, calls, fix, recruitments, images,
                   pre, bugVars, chainVars>>

\* lines 126-141: make_recruitment, once
MakeRecruitment ==
    /\ ~roster.made
    /\ roster' = [make_recruitment(roster, recruitments) EXCEPT !.made = TRUE]
    /\ UNCHANGED <<chat_env, disk, backups, calls, fix, recruitments, images,
                   pre, bugVars, chainVars>>

\* lines 59-76, chat_chain.py 76: a new ChatEnv and any configured list
InitRoster ==
    /\ chat_env = [directory |-> <<>>, codes_directory |-> <<>>,
                   requirements_directory |-> <<>>, manuals_directory |-> <<>>,
                   clear_structure |-> FALSE, task_prompt |-> <<>>,
                   writes |-> <<>>]
    /\ disk = [p \in Directories |-> "absent"]
    /\ backups = {}
    /\ calls = <<>>
    /\ fix = IdleFix
    /\ roster = EmptyRoster
    /\ recruitments \in UNION {[1..n -> AgentNames] : n \in 0..MaxRecruit}
    /\ images = NoImages
    /\ pre = IdlePre
    /\ InitChainIdle
    /\ eb = IdleFrame
    /\ process = NoProcess

NextRoster ==
    \/ Recruit
    \/ MakeRecruitment

SpecRoster == InitRoster /\ [][NextRoster]_vars

\* ------------------------------------------------------------ pre_processing
\* ChatChain.pre_processing (chat_chain.py 267-335). The local `directory` is a
\* set: empty while the name is unbound, one path once it is assigned.

\* lines 283-286: <root>/WareHouse, and line 299: the name given to the project
WareHouse == <<"/">>
ProjectDirName == <<"w">>

\* os.path.join(a, b) for a relative b
Join(a, b) ==
    IF Len(a) > 0 /\ a[Len(a)] = "/" THEN a \o b ELSE a \o <<"/">> \o b

\* what WareHouse may hold: plain files and directories, by name ending
Entries ==
    {[ends |-> "txt", isfile |-> TRUE], [ends |-> "py", isfile |-> TRUE],
     [ends |-> "log", isfile |-> TRUE], [ends |-> "txt", isfile |-> FALSE]}

\* lines 287-295: plain files are removed unless they end in .py or .log
Kept(entries) == {e \in entries : ~e.isfile \/ e.ends \in {"py", "log"}}

\* the values of config["self_improve"] and of the raw prompt tried, and the
\* answers of the prompt engineer
SelfImproveValues == {StrTrue, StrFalse}
RawPrompts == {<<"T">>, <<"T", "b">>}
Answers == {<<"T", "w">>, <<"b">>}

\* lines 281-286: `directory` is assigned inside `if clear_structure:` only
LocalDirectory(clear_structure) ==
    IF clear_structure THEN {WareHouse} ELSE {}

\* self_task_improve, lines 451-453: the answer, lowered
self_task_improve(answer) == Lower(answer)

\* lines 267-286: pre_processing is called; with clear_structure the
\* WareHouse directory is named and listed
PreProcessing ==
    /\ pre.pc = "idle"
    /\ ~chat_env.clear_structure \/ pre.warehouse_exists
    /\ pre' = [pre EXCEPT !.pc = "listed",
                          !.directory = LocalDirectory(chat_env.clear_structure),
                          !.warehouse = IF chat_env.clear_structure
                                        THEN Kept(@) ELSE @]
    /\ UNCHANGED <<chat_env, disk, backups, calls, fix, roster, recruitments,
                   images, bugVars, chainVars>>

\* line 287: os.listdir raises for a WareHouse that does not exist
PreListdirRaises ==
    /\ pre.pc = "idle"
    /\ chat_env.clear_structure
    /\ ~pre.warehouse_exists
    /\ pre' = [pre EXCEPT !.pc = "failed",
                          !.directory = LocalDirectory(chat_env.clear_structure),
                          !.error = {"FileNotFoundError"}]
    /\ UNCHANGED <<chat_env, disk, backups, calls, fix, roster, recruitments,
                   images, bugVars, chainVars>>

\* lines 298-300: software_path is computed from the local `directory`; the
\* read of an unbound local raises UnboundLocalError
PreSoftwarePathUnbound ==
    /\ pre.pc = "listed"
    /\ pre.directory = {}
    /\ pre' = [pre EXCEPT !.pc = "failed", !.error = {"UnboundLocalError"}]
    /\ UNCHANGED <<chat_env, disk, backups, calls, fix, roster, recruitments,
                   images, bugVars, chainVars>>

\* lines 298-310: set_directory(software_path) binds the directory, copies a
\* non-empty target aside and, with clear_structure, makes it anew; the three
\* configuration files and the prompt file are then written into it
PreSetDirectory ==
    /\ pre.pc = "listed"
    /\ \E directory \in pre.directory :
          LET software_path == Join(directory, ProjectDirName)
          IN  /\ DirectoryUnset(chat_env)
              /\ chat_env' = Bind(chat_env, software_path)
              /\ backups' = IF NonEmptyOnDisk(disk, software_path)
                            THEN backups \cup {software_path} ELSE backups
              /\ disk' = IF chat_env.clear_structure \/ disk[software_path] # "absent"
                         THEN [disk EXCEPT ![software_path] = "full"] ELSE disk
              /\ calls' = Append(calls, Record(Bound(chat_env), software_path,
                                               "ok", Bound(chat_env')))
    /\ pre' = [pre EXCEPT !.pc = "bound", !.reached = @ \cup {"set_directory"}]
    /\ UNCHANGED <<fix, roster, recruitments, images, bugVars, chainVars>>

\* lines 298-301, chat_env.py 109-116: copytree raises inside set_directory;
\* the directory has been bound
PreSetDirectoryRaises ==
    /\ pre.pc = "listed"
    /\ \E directory \in pre.directory :
          LET software_path == Join(directory, ProjectDirName)
          IN  /\ DirectoryUnset(chat_env)
              /\ NonEmptyOnDisk(disk, software_path)
              /\ chat_env' = Bind(chat_env, software_path)
              /\ calls' = Append(calls, Record(Bound(chat_env), software_path,
                                               "copytree raised",
                                               Bound(chat_env')))
    /\ pre' = [pre EXCEPT !.pc = "failed", !.reached = @ \cup {"set_directory"},
                          !.error = {"copytree raised"}]
    /\ UNCHANGED <<disk, backups, fix, roster, recruitments, images, bugVars,
                   chainVars>>

\* lines 329-335: the task prompt is the raw prompt, or what the prompt
\* engineer answers
PreTaskPrompt ==
    /\ pre.pc = "bound"
    /\ \E answer \in Answers :
          chat_env' = [chat_env EXCEPT !.task_prompt =
                          IF check_bool(pre.self_improve)
                          THEN self_task_improve(answer)
                          ELSE pre.task_prompt_raw]
    /\ pre' = [pre EXCEPT !.pc = "returned", !.reached = @ \cup {"task_prompt"}]
    /\ UNCHANGED <<disk, backups, calls, fix, roster, recruitments, images,
                   bugVars, chainVars>>

\* lines 329-332: the role-play session of self_task_improve raises
PreSelfImproveRaises ==
    /\ pre.pc = "bound"
    /\ check_bool(pre.self_improve)
    /\ pre' = [pre EXCEPT !.pc = "failed",
                          !.error = {"raised by self_task_improve"}]
    /\ UNCHANGED <<chat_env, disk, backups, calls, fix, roster, recruitments,
                   images, bugVars, chainVars>>

\* lines 25-124: a constructed ChatChain whose environment has no directory
\* yet, on any disk and any WareHouse
InitPre ==
    /\ \E cs \in BOOLEAN :
          chat_env = [directory |-> <<>>, codes_directory |-> <<>>,
                      requirements_directory |-> <<>>,
                      manuals_directory |-> <<>>,
                      clear_structure |-> cs, task_prompt |-> <<>>,
                      writes |-> <<>>]
    /\ disk \in {d \in [Directories -> {"absent", "empty", "full"}] :
                    d[<<>>] = "absent" /\ d[<<"w">>] = "absent"}
    /\ backups = {}
    /\ calls = <<>>
    /\ fix = IdleFix
    /\ roster = EmptyRoster
    /\ recruitments = <<>>
    /\ images = NoImages
    /\ \E si \in SelfImproveValues, raw \in RawPrompts, wh \in SUBSET Entries,
          ex \in BOOLEAN :
          /\ ~ex => wh = {}
          /\ pre = [IdlePre EXCEPT !.self_improve = si,
                                   !.task_prompt_raw = raw,
                                   !.warehouse_exists = ex, !.warehouse = wh]
    /\ InitChainIdle
    /\ eb = IdleFrame
    /\ process = NoProcess

NextPre ==
    \/ PreProcessing
    \/ PreListdirRaises
    \/ PreSoftwarePathUnbound
    \/ PreSetDirectory
    \/ PreSetDirectoryRaises
    \/ PreTaskPrompt
    \/ PreSelfImproveRaises

SpecPre == InitPre /\ [][NextPre]_vars

\* ------------------------------------------------ generate_images_from_codes
\* ChatEnv.generate_images_from_codes (chat_env.py 301-333). Text is a
\* sequence of tokens: the word characters "a" and "_", the extension "png"
\* (word characters too, taken as one token) and the non-word character ".".
\* A dict is a set of [key, value] pairs with distinct keys.

MaxCodeLen == 6
MaxGenerate == 2

ImgTokens == {"a", "_", "png", "."}
WordTokens == {"a", "_", "png"}

\* what get_codes() may return
CodeTexts == UNION {[1..n -> ImgTokens] : n \in 0..MaxCodeLen}

Keys(dict) == {e.key : e \in dict}
Get(dict, k) == (CHOOSE e \in dict : e.key = k).value

\* dict[k] = v
Put(dict, k, v) == {e \in dict : e.key # k} \cup {[key |-> k, value |-> v]}

\* line 314, r"(\w+.png)" tried at position i: the lengths the run of word
\* characters may take so that one more character and then png follow
RunLengths(s, i) ==
    {k \in 1..Len(s) :
        /\ i + k + 1 <= Len(s)
        /\ \A j \in i..(i + k - 1) : s[j] \in WordTokens
        /\ s[i + k + 1] = "png"}

Max(S) == CHOOSE k \in S : \A m \in S : m <= k

\* line 316, re.finditer: the leftmost match, the run as long as it can be,
\* then on from the end of the match
RECURSIVE FindAll(_, _)
FindAll(s, i) ==
    IF i > Len(s) THEN <<>>
    ELSE IF RunLengths(s, i) = {} THEN FindAll(s, i + 1)
    ELSE LET k == Max(RunLengths(s, i))
         IN  <<SubSeq(s, i, i + k + 1)>> \o FindAll(s, i + k + 2)

\* lines 314-316: the filenames found in the joined codes, in order
Filenames(joined_codes) == FindAll(joined_codes, 1)

\* line 323: filename.replace("_", " ")
UnderscoresToSpaces(filename) ==
    [j \in 1..Len(filename) |-> IF filename[j] = "_" THEN " " ELSE filename[j]]

\* a filename that was not proposed is passed over
IncorporateProposedOnly(incorporated, proposed, filename) ==
    IF filename \in Keys(proposed)
    THEN Put(incorporated, filename, Get(proposed, filename))
    ELSE incorporated

\* lines 320-323: one iteration of the loop over the matches
Incorporate(incorporated, proposed, filename) ==
    IF filename \in Keys(proposed)
    THEN Put(incorporated, filename, Get(proposed, filename))
    ELSE Put(incorporated, filename, UnderscoresToSpaces(filename))

\* lines 318-323: the loop over the matches
RECURSIVE IncorporateAll(_, _, _)
IncorporateAll(incorporated, proposed, filenames) ==
    IF filenames = <<>> THEN incorporated
    ELSE IncorporateAll(Incorporate(incorporated, proposed, Head(filenames)),
                        proposed, Tail(filenames))

\* the values of proposed_images tried (a public attribute, line 63, that no
\* method of ChatEnv assigns): none, or descriptions for two filenames
ProposedNames == {<<"a", ".", "png">>, <<"a", "_", "png">>}
ProposedMaps ==
    UNION {{{[key |-> k, value |-> <<"a">>] : k \in S}} : S \in SUBSET ProposedNames}

\* lines 301-333: the filenames found in the codes are incorporated, and every
\* incorporated image that is not on disk is generated and downloaded
GenerateImagesFromCodes ==
    /\ images.generated < MaxGenerate
    /\ LET filenames == Filenames(images.codes)
           incorporated == IncorporateAll(images.incorporated, images.proposed,
                                          filenames)
       IN  images' = [images EXCEPT
                         !.incorporated = incorporated,
                         !.files = @ \cup Keys(incorporated),
                         !.generated = @ + 1,
                         !.matched = @ \cup {filenames[j] : j \in 1..Len(filenames)}]
    /\ UNCHANGED <<chat_env, disk, backups, calls, fix, roster, recruitments,
                   pre, bugVars, chainVars>>

\* lines 325-333: openai.Image.create or the download raises for the first
\* image that is not on disk; the first loop has run
GenerateImagesRaises ==
    /\ images.generated < MaxGenerate
    /\ LET filenames == Filenames(images.codes)
           incorporated == IncorporateAll(images.incorporated, images.proposed,
                                          filenames)
       IN  /\ Keys(incorporated) \ images.files # {}
           /\ images' = [images EXCEPT
                            !.incorporated = incorporated,
                            !.generated = @ + 1,
                            !.matched = @ \cup {filenames[j] : j \in 1..Len(filenames)}]
    /\ UNCHANGED <<chat_env, disk, backups, calls, fix, roster, recruitments,
                   pre, bugVars, chainVars>>

\* lines 59-76 and what the phases have stored before the first call: nothing
\* incorporated, any codes and any proposed images
InitImages ==
    /\ chat_env = [directory |-> <<"/", "w">>, codes_directory |-> <<"/", "w">>,
                   requirements_directory |-> <<"/", "w">>,
                   manuals_directory |-> <<"/", "w">>,
                   clear_structure |-> FALSE, task_prompt |-> <<>>,
                   writes |-> <<>>]
    /\ disk = [p \in Directories |-> "absent"]
    /\ backups = {}
    /\ calls = <<>>
    /\ fix = IdleFix
    /\ roster = EmptyRoster
    /\ recruitments = <<>>
    /\ pre = IdlePre
    /\ \E c \in CodeTexts, m \in ProposedMaps :
          images = [NoImages EXCEPT !.codes = c, !.proposed = m]
    /\ InitChainIdle
    /\ eb = IdleFrame
    /\ process = NoProcess

NextImages ==
    \/ GenerateImagesFromCodes
    \/ GenerateImagesRaises

SpecImages == InitImages /\ [][NextImages]_vars

\* ------------------------------------------- the operations of the environment
\* The operations of ChatEnv that follow set_directory in a run: write_meta,
\* recruit, the update and rewrite of codes and documents, image generation
\* and exist_bugs. They run one at a time; exist_bugs is followed by no other.

\* the codes an update may leave
OpsCodes == {<<>>, <<"a", ".", "png">>, <<"a", "_", "png">>}

\* set_directory has been called
DirectoryCalled == Len(calls) > 0

\* no operation is under way and exist_bugs has not been called
Quiet == DirectoryCalled /\ eb.pc = "idle"

\* lines 268-299: write_meta makes the directory if it is missing and writes
\* meta.txt into it ("" names no directory: mkdir raises)
WriteMeta ==
    /\ Quiet
    /\ ~MkdirFails(chat_env.directory)
    /\ disk' = [disk EXCEPT ![chat_env.directory] = "full"]
    /\ UNCHANGED <<chat_env, backups, calls, auxVars, bugVars, chainVars>>

\* lines 194-200, 233-240: update_codes and the updates of the documents
\* change the content held, here the codes
UpdateCodes ==
    /\ Quiet
    /\ \E c \in OpsCodes \ {images.codes} :
          images' = [images EXCEPT !.codes = c]
    /\ UNCHANGED <<chat_env, disk, backups, calls, fix, roster, recruitments,
                   pre, bugVars, chainVars>>

\* lines 202-206, 242-246, 262-266: rewrite_codes, rewrite_requirements and
\* rewrite_manuals write the content held into the directory of the object
RewriteCodesAndDocs ==
    /\ Quiet
    /\ \E d \in {chat_env.codes_directory, chat_env.requirements_directory,
                 chat_env.manuals_directory} :
          /\ ~MkdirFails(d)
          /\ disk[d] # "absent"
          /\ disk' = [disk EXCEPT ![d] = "full"]
    /\ UNCHANGED <<chat_env, backups, calls, auxVars, bugVars, chainVars>>

\* the child of exist_bugs writes one byte to its standard error
ChildWriteByte ==
    /\ process.state = "running"
    /\ process.pipe_open
    /\ process.stderr = <<>>
    /\ \E b \in Bytes : process' = [process EXCEPT !.stderr = <<b>>]
    /\ UNCHANGED <<eb, envVars, chainVars>>

\* set_directory, called while nothing else runs
OpsSetDirectory ==
    /\ eb.pc = "idle"
    /\ \/ SetDirectoryRejected
       \/ SetDirectory
       \/ SetDirectoryCopyFails
       \/ SetDirectoryMkdirFails

\* recruit and image generation, called while nothing else runs
OpsRecruit == Quiet /\ Recruit
OpsGenerateImages == Quiet /\ (GenerateImagesFromCodes \/ GenerateImagesRaises)

\* exist_bugs, called after a set_directory that succeeded, before anyone is
\* recruited or any image made
OpsExistBugs ==
    /\ Quiet
    /\ calls[Len(calls)].outcome = "ok"
    /\ roster = EmptyRoster
    /\ images = NoImages
    /\ Popen \/ PopenRaises

\* lines 59-76: a new ChatEnv; the directories are all missing or all hold
\* content
InitOps ==
    /\ \E cs \in BOOLEAN :
          chat_env = [directory |-> <<>>, codes_directory |-> <<>>,
                      requirements_directory |-> <<>>,
                      manuals_directory |-> <<>>,
                      clear_structure |-> cs, task_prompt |-> <<>>,
                      writes |-> <<>>]
    /\ \E content \in {"absent", "full"} :
          disk = [p \in Directories |-> IF p = <<>> THEN "absent" ELSE content]
    /\ backups = {}
    /\ calls = <<>>
    /\ InitAuxIdle
    /\ InitChainIdle
    /\ eb = IdleFrame
    /\ process = NoProcess

NextOps ==
    \/ OpsSetDirectory
    \/ WriteMeta
    \/ UpdateCodes
    \/ RewriteCodesAndDocs
    \/ OpsRecruit
    \/ OpsGenerateImages
    \/ OpsExistBugs
    \/ ChildWriteByte
    \/ ChildExit
    \/ ChildCloseStderr
    \/ ChildTerminated
    \/ GraceEnd
    \/ KillRaises
    \/ Classify

SpecOps == InitOps /\ [][NextOps]_vars

\* ================================================================== claims

Range(f) == {f[j] : j \in DOMAIN f}

\* the phase names of a sequence of invocations
Names(invocations) == [j \in 1..Len(invocations) |-> invocations[j].phase]

\* the invocations made for the chain's k-th entry, in order
ExecutedAt(k) == SelectSeq(cc.executed, LAMBDA e : e.step = k)

\* a composition repeated c times
Repeated(composition, c) ==
    [j \in 1..(c * Len(composition)) |->
        composition[((j - 1) % Len(composition)) + 1]]

\* execute_chain has failed on an entry of a known type whose name is neither
\* a phase of PhaseConfig.json nor a class of chatdev.composed_phase
FailedOnUnresolved ==
    /\ cc.pc = "failed"
    /\ cc.i \in 1..Len(chain)
    /\ \/ /\ chain[cc.i].phaseType = "SimplePhase"
          /\ chain[cc.i].phase \notin {"Draft", "Critique", "Revise"}
       \/ /\ chain[cc.i].phaseType = "ComposedPhase"
          /\ chain[cc.i].phase \notin {"Review"}

\* ---- SpecChain

\* C1, as stated: when execute_chain fails on a name that does not resolve at
\* position N, none of the phases at positions 1..N-1 has executed or changed
\* the environment.
C1_NoPhaseBeforeUnresolvedName ==
    FailedOnUnresolved => cc.executed = <<>> /\ chat_env.writes = <<>>

\* C1, amended: names are resolved step by step.  No phase with an unresolved
\* name ever executes and a chain with such an entry never completes; when
\* execute_chain fails on the unresolved entry at position N, entries 1..N-1
\* have been dispatched and have returned, every invocation made belongs to
\* them, and the environment holds exactly their writes.
C1_ResolvedStepByStep ==
    /\ \A e \in Range(cc.executed) : e.phase \in {"Draft", "Critique", "Revise"}
    /\ cc.pc = "done" =>
          \A k \in 1..Len(chain) :
             /\ chain[k].phaseType = "SimplePhase"
                   => chain[k].phase \in {"Draft", "Critique", "Revise"}
             /\ chain[k].phaseType = "ComposedPhase"
                   => chain[k].phase \in {"Review"}
    /\ FailedOnUnresolved =>
          /\ cc.dispatched = [k \in 1..cc.i |-> k]
          /\ cc.returned = cc.i - 1
          /\ \A e \in Range(cc.executed) : e.step < cc.i
          /\ chat_env.writes = Names(cc.executed)
          /\ \E err \in cc.error : err.names = chain[cc.i].phase

\* C1 witness: the unresolved name is at position 2 and the phase at position
\* 1 has executed and written to the environment
C1_Witness ==
    /\ FailedOnUnresolved
    /\ cc.i = 2
    /\ cc.executed # <<>>
    /\ chat_env.writes # <<>>

\* C2: execute_chain walks the step list once: entries are dispatched in
\* configuration order, each once, the next only after the one before has
\* returned; when the chain completes every entry has been dispatched and has
\* returned; every invocation made is of a phase the entry it was made for
\* names, and the invocations follow the order of the entries.
C2_WalksChainOnce ==
    /\ cc.dispatched = [k \in 1..Len(cc.dispatched) |-> k]
    /\ Len(cc.dispatched) <= Len(chain)
    /\ cc.returned <= Len(cc.dispatched)
    /\ Len(cc.dispatched) <= cc.returned + 1
    /\ cc.pc \in {"phase", "composed", "inner"}
          => Len(cc.dispatched) = cc.returned + 1
    /\ cc.pc = "done"
          => Len(cc.dispatched) = Len(chain) /\ cc.returned = Len(chain)
    /\ \A j \in 1..Len(cc.executed) :
          LET e == cc.executed[j]
          IN  /\ e.step \in Range(cc.dispatched)
              /\ chain[e.step].phaseType = "SimplePhase"
                    => e.phase = chain[e.step].phase
              /\ chain[e.step].phaseType = "ComposedPhase"
                    => e.phase \in Range(chain[e.step].Composition)
              /\ j > 1 => cc.executed[j - 1].step <= e.step

\* C2 witness: a chain of two entries, a simple and a composed one, has been
\* walked to its end
C2_Witness ==
    /\ cc.pc = "done"
    /\ Len(chain) = 2
    /\ chain[1].phaseType = "SimplePhase"
    /\ chain[2].phaseType = "ComposedPhase"
    /\ cc.dispatched = <<1, 2>>
    /\ Len(cc.executed) >= 3

\* C3: once a ComposedPhase entry with cycle count c and a composition of
\* length m has returned, the invocations made for it are the composition, in
\* order, repeated c times: c*m invocations, the same in every cycle.
C3_ComposedRunsEveryCycle ==
    \A k \in 1..Len(chain) :
       (chain[k].phaseType = "ComposedPhase" /\ k < cc.i) =>
          /\ Names(ExecutedAt(k))
                = Repeated(chain[k].Composition, chain[k].cycleNum)
          /\ Len(ExecutedAt(k))
                = chain[k].cycleNum * Len(chain[k].Composition)

\* C3 witness: the chain [Simple Draft, Composed Review(cycleNum 2,
\* Composition [Critique, Revise])] has run Draft, Critique, Revise, Critique,
\* Revise
C3_Witness ==
    /\ cc.pc = "done"
    /\ chain = <<Simple("Draft", 3, StrFalse),
                 Composed("Review", 2, <<"Critique", "Revise">>)>>
    /\ Names(cc.executed)
          = <<"Draft", "Critique", "Revise", "Critique", "Revise">>

\* ---- SpecEnv

\* C4: a set_directory call made when a directory is bound fails on the
\* assert and leaves env_dict["directory"] and the directories of codes,
\* requirements and manuals as they were.
C4_DirectorySetOnce ==
    \A j \in 1..Len(calls) :
       Len(calls[j].before[1]) > 0 =>
          /\ calls[j].outcome = "AssertionError"
          /\ calls[j].after = calls[j].before

\* C4 witness: a second call, with another directory, was rejected
C4_Witness ==
    \E j \in 1..Len(calls) :
       /\ Len(calls[j].before[1]) > 0
       /\ calls[j].arg # calls[j].before[1]
       /\ calls[j].outcome = "AssertionError"
       /\ Bound(chat_env) = calls[j].before

\* ---- SpecBugs

NoBug == [hasBug |-> FALSE, message |-> success_info]

\* C5, as stated: when the child had exited with exit code zero at the end of
\* the grace period (and exist_bugs caught no exception), the result is no bug
\* with the success message, whatever it wrote to standard error.
C5_ExitZeroIsNoBug ==
    (/\ eb.pc = "returned"
     /\ eb.polled = "exited"
     /\ process.exit = {0}
     /\ eb.caught = {})
       => eb.result = {NoBug}

\* C6, as stated: when the child is alive at the end of the grace period (and
\* exist_bugs caught no exception) its group is sent the termination signal
\* and the result is no bug, whatever it had written to standard error.
C6_AliveIsNoBug ==
    (eb.pc = "returned" /\ eb.polled = "alive" /\ eb.caught = {})
       => process.signalled = "group" /\ eb.result = {NoBug}

\* C6, amended: when the child is alive at the end of the grace period and
\* exist_bugs returns without having caught an exception, the child's whole
\* group was sent the termination signal, and the result is has-bug with the
\* stripped text when the text captured from standard error holds the
\* traceback marker, and no bug with the success message when it does not.
C6_AliveIsSignalledThenClassified ==
    (eb.pc = "returned" /\ eb.polled = "alive" /\ eb.caught = {}) =>
       /\ process.signalled = "group"
       /\ \E r \in eb.result :
             /\ eb.result = {r}
             /\ r.hasBug = HasTraceback(process.stderr)
             /\ ~r.hasBug => r.message = success_info
             /\ r.hasBug => r.message = Errs(process.stderr, chat_env.directory)

\* C6 witness: an alive child that had written a traceback was signalled and
\* reported as a bug
C6_Witness ==
    /\ eb.pc = "returned"
    /\ eb.polled = "alive"
    /\ eb.caught = {}
    /\ process.signalled = "group"
    /\ \E r \in eb.result : r.hasBug

\* C7: when the child exited non-zero before the end of the grace period and
\* the text captured from its standard error holds the traceback marker in
\* any case of letters, the result is has-bug and the message is that text
\* with the occurrences of directory + "/" removed.
C7_TracebackIsBug ==
    (/\ eb.pc = "returned"
     /\ eb.polled = "exited"
     /\ process.exit # {0}
     /\ Decodable(process.stderr)
     /\ \E i \in 1..(Len(process.stderr) - 1) :
           process.stderr[i] \in {"T", "t"} /\ process.stderr[i + 1] \in {"B", "b"})
       => eb.result = {[hasBug |-> TRUE,
                        message |-> StrRemove(process.stderr,
                                              chat_env.directory \o <<"/">>)]}

\* C7 witness: the text held the marker and the directory prefix, which was
\* stripped from the message
C7_Witness ==
    /\ eb.pc = "returned"
    /\ eb.polled = "exited"
    /\ process.exit = {1}
    /\ chat_env.directory # <<>>
    /\ Contains(process.stderr, chat_env.directory \o <<"/">>)
    /\ \E r \in eb.result : r.hasBug /\ Len(r.message) < Len(process.stderr)

\* C8: when the child exited non-zero before the end of the grace period and
\* wrote nothing to standard error, the result is no bug with the success
\* message.
C8_SilentNonZeroIsNoBug ==
    (/\ eb.pc = "returned"
     /\ eb.polled = "exited"
     /\ process.exit # {0}
     /\ process.stderr = <<>>)
       => eb.result = {NoBug}

\* C8 witness: exist_bugs returned for a child that exited 1 in silence
C8_Witness ==
    /\ eb.pc = "returned"
    /\ eb.polled = "exited"
    /\ process.exit = {1}
    /\ process.stderr = <<>>
    /\ eb.result = {NoBug}

\* C9: exist_bugs never raises: no exception leaves it, a caught exception
\* becomes the result has-bug whose message ends with the exception's text,
\* and whenever exist_bugs has returned its result is one (hasBug, message)
\* pair.
C9_NeverRaises ==
    /\ eb.pc \in {"idle", "sleep", "classify", "returned"}
    /\ eb.pc = "returned" =>
          \E r \in eb.result :
             /\ eb.result = {r}
             /\ r.hasBug \in BOOLEAN
             /\ r.message \in Seq(STRING)
    /\ \A ex \in eb.caught :
          /\ eb.pc = "returned"
          /\ \E r \in eb.result :
                /\ r.hasBug
                /\ r.message[Len(r.message)] = ex.text

\* C9 witness: an exception raised after the spawn was turned into a result
C9_Witness ==
    /\ eb.pc = "returned"
    /\ process.state # "none"
    /\ eb.caught # {}
    /\ \E r \in eb.result : r.hasBug

\* C10, as stated: whenever exist_bugs has returned, no process of the child's
\* group is still running.
C10_ChildReleasedOnReturn ==
    eb.pc = "returned" => process.state # "running"
\* ---- SpecFix

\* the modules a report names in its occurrences of "No module named"
NamedModules(test_reports) ==
    {test_reports[j].module :
        j \in {x \in 1..Len(test_reports) :
                  test_reports[x].kind = "No module named"}}

\* C11, as stated: for a report with the marker, the installs attempted are
\* the distinct modules it names, each exactly once, however many times a
\* module is mentioned.
C11_OneInstallPerDistinctModule ==
    (fix.pc = "returned" /\ HasMarker(fix.test_reports)) =>
       /\ Range(fix.installs) = NamedModules(fix.test_reports)
       /\ Len(fix.installs) = Cardinality(NamedModules(fix.test_reports))
\* ---- SpecRoster

\* C12: recruitment is idempotent: the roster holds each recruited name once;
\* a recruit call for a name that is present leaves the roster's size as it
\* was and a call for a new name adds one; after make_recruitment every
\* configured participant is in the roster.
C12_RecruitmentIdempotent ==
    /\ Cardinality(Range(roster.agents)) = Len(roster.agents)
    /\ Range(roster.agents) = {roster.log[j].name : j \in 1..Len(roster.log)}
    /\ \A j \in 1..Len(roster.log) :
          /\ roster.log[j].present => roster.log[j].after = roster.log[j].before
          /\ ~roster.log[j].present
                => roster.log[j].after = roster.log[j].before + 1
    /\ roster.made => Range(recruitments) \subseteq Range(roster.agents)

\* C12 witness: make_recruitment has run over a list that names a participant
\* twice, and the second mention left the roster's size unchanged
C12_Witness ==
    /\ roster.made
    /\ Len(recruitments) > Cardinality(Range(recruitments))
    /\ \E j \in 1..Len(roster.log) :
          /\ roster.log[j].present
          /\ roster.log[j].after = roster.log[j].before
          /\ roster.log[j].after = Len(roster.agents)
\* the errors execute_step words for a name it does not find (lines 190-193
\* for chatdev.phase, lines 199-202 for chatdev.compose_phase)
ResolutionErrors(phase) ==
    {[type |-> "RuntimeError", names |-> phase, message |-> m] :
        m \in {"Phase is not yet implemented in chatdev.phase",
               "Phase is not yet implemented in chatdev.compose_phase"}}

\* C13: a chain step of either type whose phase name does not resolve fails
\* with the phase-resolution error naming that phase, before any side effect of
\* the step: no phase is executed for it, the environment is as the earlier
\* steps left it, and the run has stopped at that step.
C13_UnresolvedFailsWithResolutionError ==
    FailedOnUnresolved =>
        /\ cc.error # {}
        /\ cc.error \subseteq ResolutionErrors(chain[cc.i].phase)
        /\ \A j \in 1..Len(cc.executed) : cc.executed[j].step # cc.i
        /\ chat_env.writes = Names(cc.executed)
        /\ cc.dispatched[Len(cc.dispatched)] = cc.i
\* the chain entries whose phaseType is neither SimplePhase nor ComposedPhase
BadTypeSteps ==
    {j \in 1..Len(chain) :
        chain[j].phaseType \notin {"SimplePhase", "ComposedPhase"}}

\* C14: a chain step whose phaseType is neither SimplePhase nor ComposedPhase
\* fails with a configuration error that is not the unresolved-phase error; no
\* phase is executed for the step, the environment is as the earlier steps left
\* it, and no later step runs: the run stops at the step and never walks past it.
C14_BadTypeFailsDistinctly ==
    /\ \A j \in BadTypeSteps :
          /\ \A k \in 1..Len(cc.executed) : cc.executed[k].step < j
          /\ \A k \in 1..Len(cc.dispatched) : cc.dispatched[k] <= j
          /\ cc.i <= j
          /\ cc.pc # "done"
    /\ (cc.pc = "failed" /\ cc.i \in BadTypeSteps) =>
          /\ cc.error = {[type |-> "RuntimeError",
                          names |-> chain[cc.i].phaseType,
                          message |-> "PhaseType is not yet implemented."]}
          /\ cc.error \cap (ResolutionErrors(chain[cc.i].phase)
                            \cup ResolutionErrors(chain[cc.i].phaseType)) = {}
          /\ chat_env.writes = Names(cc.executed)
          /\ cc.dispatched[Len(cc.dispatched)] = cc.i

\* execute_chain has failed on a bad phaseType after an earlier step ran
C14_Witness ==
    /\ cc.pc = "failed"
    /\ cc.i \in BadTypeSteps
    /\ cc.i > 1
    /\ Len(cc.executed) > 0
\* the invocations made for SimplePhase chain entries
SimpleInvocations ==
    {j \in 1..Len(cc.executed) :
        chain[cc.executed[j].step].phaseType = "SimplePhase"}

\* C15: for every SimplePhase chain step, the turn limit passed to the phase's
\* execute is the configured max_turn_step when that is greater than 0 and the
\* default 10 when it is 0 or negative; the limit passed is at least 1.
C15_TurnLimitDefaultsToTen ==
    \A j \in SimpleInvocations :
        LET configured == chain[cc.executed[j].step].max_turn_step
            passed == cc.executed[j].chat_turn_limit
        IN  /\ configured > 0 => passed = configured
            /\ configured <= 0 => passed = 10
            /\ passed >= 1

\* one run has invoked phases configured with a zero, a negative or a positive
\* max_turn_step
C15_Witness ==
    /\ \E j \in SimpleInvocations : chain[cc.executed[j].step].max_turn_step <= 0
    /\ \E j \in SimpleInvocations : chain[cc.executed[j].step].max_turn_step > 0
\* ---- SpecBugs, two calls

\* C16: two successive exist_bugs calls on the same environment, each running
\* an artifact that exits with code 0 (and neither call ending in a handler),
\* both return hasBug=false.
C16_ExitZeroTwiceIsNoBugTwice ==
    (/\ eb.pc = "returned"
     /\ eb.caught = {}
     /\ process.exit = {0}
     /\ \E o \in eb.earlier : o.exit = {0} /\ ~o.caught)
    => /\ \A o \in eb.earlier : ~o.hasBug
       /\ \A r \in eb.result : ~r.hasBug
\* ---- SpecPre

\* C17: the environment's directory is bound during pre-processing for every
\* configuration: with clear_structure true and false, pre_processing (given
\* a WareHouse directory to list) does not fail before reaching set_directory,
\* and when it returns the directory is the non-empty project path and the
\* task prompt is set.
C17_DirectoryBoundForEveryConfiguration ==
    /\ (pre.pc = "failed" /\ pre.warehouse_exists)
          => "set_directory" \in pre.reached
    /\ pre.pc = "returned" =>
          /\ chat_env.directory = Join(WareHouse, ProjectDirName)
          /\ Len(chat_env.directory) > 0
          /\ pre.reached = {"set_directory", "task_prompt"}
    /\ \A cs \in BOOLEAN :
          (chat_env.clear_structure = cs /\ pre.pc = "listed")
             => pre.directory # {}
\* ---- SpecImages

\* C18, as stated: in every reachable state every filename key of
\* incorporated_images is also a key of proposed_images.
C18_IncorporatedSubsetOfProposed ==
    Keys(images.incorporated) \subseteq Keys(images.proposed)

\* C18, amended: every filename key of incorporated_images is a filename that
\* generate_images_from_codes found in the codes, and every filename it found
\* is a key; the description is the proposed one, or, for a filename that is
\* not proposed, the filename with "_" replaced by " ".
C18_IncorporatedAreFoundInCodes ==
    /\ Cardinality(Keys(images.incorporated)) = Cardinality(images.incorporated)
    /\ Keys(images.incorporated) = images.matched
    /\ images.generated > 0 =>
          Keys(images.incorporated) = Range(Filenames(images.codes))
    /\ \A e \in images.incorporated :
          IF e.key \in Keys(images.proposed)
          THEN e \in images.proposed
          ELSE e.value = UnderscoresToSpaces(e.key)
    /\ images.generated = 0 => images.incorporated = {}
    /\ images.files \subseteq Keys(images.incorporated)

\* generate_images_from_codes has incorporated a proposed image with its
\* proposed description and an image that was never proposed
C18_Witness ==
    /\ images.generated > 0
    /\ images.proposed \cap images.incorporated # {}
    /\ Keys(images.incorporated) \ Keys(images.proposed) # {}
\* ---- SpecChain, the environment

\* the calls of execute made for SimplePhase entries
SimpleSteps ==
    {j \in 1..Len(cc.steps) : chain[cc.steps[j].step].phaseType = "SimplePhase"}

C20_EnvironmentThreaded ==
    /\ Len(cc.steps) > 0 => cc.steps[1].env_in = <<>>
    /\ \A j \in 2..Len(cc.steps) :
          cc.steps[j - 1].env_out = {cc.steps[j].env_in}
    /\ (cc.pc \in {"loop", "done"} /\ Len(cc.steps) > 0) =>
          Last(cc.steps).env_out = {chat_env.writes}
    /\ cc.pc = "done" => Len(cc.steps) = Len(chain)

\* a chain of two steps has completed and both steps wrote to the environment
C20_Witness ==
    /\ cc.pc = "done"
    /\ Len(cc.steps) > 1
    /\ Len(cc.steps[2].env_in) > 0
    /\ Len(chat_env.writes) > Len(cc.steps[2].env_in)
\* ---- SpecChain, failures

\* execute_chain has failed because a phase invoked for the entry at cc.i raised
FailedInPhase ==
    /\ cc.pc = "failed"
    /\ \E e \in cc.error : e.type = "ExternalCallFailure"

\* C21: a failure raised by a phase invoked at chain step k propagates out of
\* execute_chain at once: an error once raised is never left behind by a run
\* that goes on, step k has been dispatched once and the failed phase invoked
\* once for it, no step after k has been dispatched or executed, and the
\* environment holds the writes of everything that completed before.
C21_FailurePropagatesAtOnce ==
    /\ cc.error # {} => cc.pc = "failed"
    /\ FailedInPhase =>
          /\ Cardinality({j \in 1..Len(cc.dispatched) : cc.dispatched[j] = cc.i}) = 1
          /\ \A j \in 1..Len(cc.dispatched) : cc.dispatched[j] <= cc.i
          /\ \A j \in 1..Len(cc.executed) : cc.executed[j].step <= cc.i
          /\ Last(cc.executed).step = cc.i
          /\ \E e \in cc.error : e.names = Last(cc.executed).phase
          /\ chain[cc.i].phaseType = "SimplePhase" => Len(ExecutedAt(cc.i)) = 1
          /\ cc.returned = cc.i - 1
          /\ chat_env.writes =
                Names(SubSeq(cc.executed, 1, Len(cc.executed) - 1))

\* the second of three entries has failed in its phase after the first had
\* completed and written to the environment; the third is left unrun
C21_Witness ==
    /\ FailedInPhase
    /\ cc.i > 1
    /\ cc.i < Len(chain)
    /\ cc.returned > 0
    /\ Len(chat_env.writes) > 0
\* ---- SpecFix, effects

\* C22: fix_module_not_found_error is fire-and-forget: no step of it runs the
\* validator or spawns a child artifact process, none changes a field of the
\* environment or the project directory on disk, and the report it was given
\* stays as it was; what changes is its own position, the installs and the log.
C22_FixIsFireAndForget ==
    [][/\ chat_env' = chat_env
       /\ eb' = eb
       /\ process' = process
       /\ disk' = disk
       /\ backups' = backups
       /\ fix.pc # "idle" => fix'.test_reports = fix.test_reports]_vars

\* the call has returned after two installs, with their two log lines
C22_Witness ==
    /\ fix.pc = "returned"
    /\ Len(fix.installs) = 2
    /\ Len(fix.log) = 2
\* the modules of the occurrences of the pattern in a report, in the order of
\* the text, repeated as often as they occur
Occurrences(test_reports) ==
    LET at == SelectSeq([j \in 1..Len(test_reports) |-> j],
                        LAMBDA j : test_reports[j].kind = "No module named")
    IN  [j \in 1..Len(at) |-> test_reports[at[j]].module]

IsPrefix(s, t) == Len(s) <= Len(t) /\ s = SubSeq(t, 1, Len(s))

\* C25: fix_module_not_found_error attempts no installation when the report
\* lacks the marker ModuleNotFoundError, whatever `No module named` occurrences
\* it holds; with the marker, installs are attempted in the order of the
\* occurrences in the report, one at a time: an install is started only when
\* every earlier one has finished and been logged.
C25_NoMarkerNoInstallElseInOrder ==
    fix.pc # "idle" =>
       /\ ~HasMarker(fix.test_reports) =>
             fix.installs = <<>> /\ fix.installing = {} /\ fix.log = <<>>
       /\ HasMarker(fix.test_reports) =>
             /\ IsPrefix(fix.installs, Occurrences(fix.test_reports))
             /\ fix.pc = "returned" =>
                   fix.installs = Occurrences(fix.test_reports)
       /\ Cardinality(fix.installing) <= 1
       /\ fix.installing # {} <=> fix.pc = "wait"
       /\ fix.pc = "wait" =>
             /\ fix.installing = {Last(fix.installs)}
             /\ Len(fix.log) = Len(fix.installs) - 1
       /\ fix.pc # "wait" => Len(fix.log) = Len(fix.installs)

\* the call has returned for a report that names a missing module twice over
\* but lacks the marker
C25_Witness ==
    /\ fix.pc = "returned"
    /\ ~HasMarker(fix.test_reports)
    /\ Len(Occurrences(fix.test_reports)) = 2
\* ---- SpecBugsLive

\* C23: exist_bugs terminates: whatever the child does (fails to spawn, exits
\* within the grace period, keeps running, leaves the termination signal
\* unanswered, keeps its standard-error pipe open), a call of exist_bugs that
\* was made eventually returns a result.
C23_ExistBugsReturns == (eb.pc # "idle") ~> (eb.pc = "returned")
\* ---- SpecBugs, the two cases of has-bug

\* the traceback marker, in any case of letters, occurs in a text
MarkerIn(text) ==
    \E i \in 1..(Len(text) - 1) :
        text[i] \in {"T", "t"} /\ text[i + 1] \in {"B", "b"}

\* C24: exist_bugs reports has-bug in two cases only: the text captured from
\* standard error holds the traceback marker, or an exception was caught. A
\* child that exited non-zero with standard-error text without the marker
\* gives no bug with the success message, and every return carries one
\* (hasBug, message) pair.
C24_HasBugOnlyOnMarkerOrException ==
    eb.pc = "returned" =>
       /\ \E r \in eb.result : eb.result = {r} /\ r.hasBug \in BOOLEAN
       /\ \A r \in eb.result :
             r.hasBug => \/ eb.caught # {}
                         \/ Decodable(process.stderr) /\ MarkerIn(process.stderr)
       /\ (/\ eb.caught = {}
           /\ process.exit \cap {0} = {}
           /\ process.stderr # <<>>
           /\ ~MarkerIn(process.stderr))
             => eb.result = {NoBug}

\* exist_bugs returned no bug for a child that exited 1 after writing text
\* without the marker to standard error
C24_Witness ==
    /\ eb.pc = "returned"
    /\ eb.polled = "exited"
    /\ process.exit = {1}
    /\ Len(process.stderr) > 1
    /\ ~MarkerIn(process.stderr)
    /\ eb.caught = {}
    /\ eb.result = {NoBug}
\* ---- SpecEnv, the disk

\* C26: set_directory never destroys existing content without a backup: in
\* every step, a directory that held content and no longer does has been
\* copied aside in that call (or before), and only with clear_structure; a
\* call whose copy failed leaves the disk as it was; without clear_structure
\* nothing on disk changes; no backup is ever lost.
C26_NoRemovalWithoutBackup ==
    [][/\ \A d \in Directories :
             (disk[d] = "full" /\ disk'[d] # "full") =>
                /\ d \in backups'
                /\ chat_env.clear_structure
                /\ Len(calls') = Len(calls) + 1
                /\ calls'[Len(calls')].arg = d
                /\ calls'[Len(calls')].outcome = "ok"
       /\ (Len(calls') > Len(calls)
             /\ calls'[Len(calls')].outcome # "ok") => disk' = disk
       /\ ~chat_env.clear_structure => disk' = disk
       /\ backups \subseteq backups']_vars

\* with clear_structure, a directory that held content has been copied aside
\* and made anew
C26_Witness ==
    /\ chat_env.clear_structure
    /\ chat_env.directory \in backups
    /\ disk[chat_env.directory] = "empty"
    /\ Len(calls) > 0
    /\ calls[Len(calls)].outcome = "ok"
\* ---- SpecOps

\* the four places hold one directory, the one the last set_directory that
\* went past its assert was given
FourAgree ==
    /\ chat_env.codes_directory = chat_env.directory
    /\ chat_env.requirements_directory = chat_env.directory
    /\ chat_env.manuals_directory = chat_env.directory
    /\ \A j \in 1..Len(calls) :
          (/\ calls[j].outcome # "AssertionError"
           /\ \A k \in (j + 1)..Len(calls) : calls[k].outcome = "AssertionError")
             => chat_env.directory = calls[j].arg

\* C27: directory consistency: in every state reached after a successful
\* set_directory the directory of env_dict, of codes, of requirements and of
\* manuals are the same, the one set_directory was given, and no step of a
\* later operation (exist_bugs, write_meta, recruit, update and rewrite of
\* codes and documents, image generation) changes any of the four.
C27_DirectoryConsistency ==
    /\ []FourAgree
    /\ [][calls' = calls => Bound(chat_env') = Bound(chat_env)]_vars

\* after a successful set_directory with clear_structure, write_meta has
\* written into the directory and exist_bugs has run there and returned
C27_Witness ==
    /\ eb.pc = "returned"
    /\ process.state # "none"
    /\ Len(chat_env.directory) > 0
    /\ calls[Len(calls)].outcome = "ok"
    /\ chat_env.clear_structure
    /\ disk[chat_env.directory] = "full"
    /\ FourAgree
====
